---- MODULE Spec2Model ----
(***************************************************************************)
(* A state-machine model of quiz.py: the interactive quiz runner (menus,   *)
(* question loop, scoring, summary) together with the raw-keyboard input   *)
(* reader it is driven by.                                                 *)
(*                                                                         *)
(* Every blocking read of one byte is one step; the code that runs between *)
(* two reads is one action.  pc names the frame that is waiting:           *)
(*   "main"        main's while loop, about to call select_mode            *)
(*   "mode"        select_mode's key loop                                  *)
(*   "module"      select_module's key loop                                *)
(*   "main_result" select_mode has returned to main                        *)
(*   "run_init"    run_quiz has been called                                *)
(*   "loop"        head of run_quiz's while loop                           *)
(*   "question"    show_question's key loop                                *)
(*   "result"      show_result, blocked in wait_for_enter                  *)
(*   "abort"       show_exit_confirmation, blocked in wait_for_enter       *)
(*   "summary"     show_summary has been called                            *)
(*   "summary_wait" show_summary, blocked in wait_for_enter                *)
(*   "returned"    run_quiz has returned to a caller other than main       *)
(*   "exited"      the process has ended (exc tells how)                   *)
(*   "check" / "checked"  a direct call of check_answers                   *)
(* rd is the position inside get_arrow_key / wait_for_enter:               *)
(*   "idle" not in a reader, "key" blocked in a read of get_arrow_key (buf *)
(*   holds the bytes read so far), "w" blocked in wait_for_enter's loop,   *)
(*   "ret" the reader has returned and the caller has not yet acted on it. *)
(***************************************************************************)
EXTENDS Integers, Sequences, FiniteSets, TLC

VARIABLES
    platform,        \* sys.platform: "win32" or "posix"
    questions,       \* Quiz.questions: id -> [nopts, correct_indices]
    modules,         \* Quiz.modules: id -> question-id sequence
    entry,           \* who drives the Quiz object: "main" or "run_quiz"
    pc,
    selected,        \* local `selected` of the innermost menu frame
    depth,           \* select_mode frames nested under the innermost one
    checked,         \* local `checked` of show_question
    result,          \* select_mode's return value: [none, q_ids]
    question_ids,    \* run_quiz's argument
    quiz_questions,  \* Quiz.quiz_questions
    current_index,   \* Quiz.current_index
    stats,           \* Quiz.stats
    user_answers,    \* argument of check_answers
    correct_indices, \* argument of check_answers
    is_correct,      \* result of check_answers
    report,          \* what show_summary printed: [pct_correct, pct_wrong, tier]
    screen,          \* the screen rendered last
    exc,             \* the exception that ended the process, or "none"
    aborted,         \* history: escape was pressed in this run's question loop
    hist,            \* history of this run: answers submitted, answers equal
                     \* to the correct set, stale IDs skipped
    line,            \* the line parse_questions is given
    rd,
    key,             \* get_arrow_key's return value (while rd = "ret")
    buf,             \* the bytes the current get_arrow_key call has consumed;
                     \* in wait_for_enter, the byte its loop read last
    term,            \* the terminal's input mode: "cooked" or "raw"
    old_settings     \* the reader's local old_settings

vars == <<platform, questions, modules, entry, pc, selected, depth, checked, result,
          question_ids, quiz_questions, current_index, stats, user_answers,
          correct_indices, is_correct, report, screen, exc, aborted, hist, line,
          rd, key, buf, term, old_settings>>

config == <<platform, questions, modules, entry, line>>
reader == <<rd, key, buf, term, old_settings>>
session == <<quiz_questions, current_index, stats>>
scoring == <<user_answers, correct_indices, is_correct>>

(***************************************************************************)
(* Bounds of the inputs that are enumerated.                               *)
(***************************************************************************)
MaxLen == 3      \* longest index sequence handed to check_answers directly
MaxOpt == 3      \* option indices 0..MaxOpt-1 in those sequences
MaxIds == 2      \* longest id sequence handed to run_quiz directly
MaxTotal == 5    \* largest tally total handed to show_summary directly
MaxOver == 1     \* how far the longest module list exceeds main's sample cap
MaxLine == 6     \* longest line handed to parse_questions
MaxDepth == 2    \* most re-entries of select_mode from itself that are followed

(***************************************************************************)
(* Helpers.                                                                *)
(***************************************************************************)
Min(a, b) == IF a <= b THEN a ELSE b

ToSet(s) == {s[i] : i \in DOMAIN s}

SeqsUpTo(S, n) == UNION {[1..k -> S] : k \in 0..n}

\* All orders in which the elements of a finite set can be listed.
ListsOf(S) ==
    {f \in [1..Cardinality(S) -> S] : \A i, j \in DOMAIN f : i # j => f[i] # f[j]}

RECURSIVE sorted(_)
sorted(S) ==
    IF S = {} THEN <<>>
    ELSE LET m == CHOOSE x \in S : \A y \in S : x <= y
         IN  <<m>> \o sorted(S \ {m})

\* The sequence s without its element at position i.
without(s, i) == [j \in 1..(Len(s) - 1) |-> IF j < i THEN s[j] ELSE s[j + 1]]

\* random.sample(population, k): the lists made of the elements at k distinct
\* positions, in any order.  The first element is drawn from any position and
\* the rest from what is left; positions that hold the same value give the
\* same lists, so one position is tried for each value.
RECURSIVE sample(_, _)
sample(population, k) ==
    IF k = 0 THEN {<<>>}
    ELSE UNION {{<<population[i]>> \o rest :
                    rest \in sample(without(population, i), k - 1)} :
                i \in {n \in DOMAIN population :
                          \A m \in 1..(n - 1) : population[m] # population[n]}}

(***************************************************************************)
(* Input Reader: get_arrow_key and wait_for_enter.                         *)
(***************************************************************************)
\* The bytes a read can deliver; "x" stands for every byte the code gives no
\* meaning to (end of input, which read(1) reports as '', included).
Bytes == {"ESC", "[", "A", "B", "CR", "SP", "j", "k", "E0", "H", "P", "x"}

Symbols == {"up", "down", "enter", "esc", "space", ""}

\* get_arrow_key after having read the bytes b (in order): the symbol it
\* returns, or "more" when it goes on to read another byte.
classify_win32(b) ==
    IF Len(b) = 1 THEN
        CASE b[1] = "E0"  -> "more"
          [] b[1] = "CR"  -> "enter"
          [] b[1] = "ESC" -> "esc"
          [] b[1] = "SP"  -> "space"
          [] b[1] = "j"   -> "down"
          [] b[1] = "k"   -> "up"
          [] OTHER        -> ""
    ELSE
        CASE b[2] = "H" -> "up"
          [] b[2] = "P" -> "down"
          [] OTHER      -> ""

classify_posix(b) ==
    IF Len(b) = 1 THEN
        CASE b[1] = "ESC" -> "more"
          [] b[1] = "CR"  -> "enter"
          [] b[1] = "SP"  -> "space"
          [] OTHER        -> ""
    ELSE IF Len(b) = 2 THEN
        IF b[2] = "[" THEN "more" ELSE "esc"
    ELSE
        CASE b[3] = "A" -> "up"
          [] b[3] = "B" -> "down"
          [] OTHER      -> "esc"

classify(b) ==
    IF platform = "win32" THEN classify_win32(b) ELSE classify_posix(b)

\* tty.setraw after termios.tcgetattr (posix only).
setraw ==
    IF platform = "posix"
    THEN old_settings' = term /\ term' = "raw"
    ELSE UNCHANGED <<old_settings, term>>

\* The finally clause: termios.tcsetattr(fd, TCSADRAIN, old_settings).
restore ==
    /\ term' = IF platform = "posix" THEN old_settings ELSE term
    /\ UNCHANGED old_settings

KeyLoops == {"mode", "module", "question"}
EnterWaits == {"result", "abort", "summary_wait"}

\* A key loop calls get_arrow_key: up to the first blocking read.
GetArrowKeyCall ==
    /\ pc \in KeyLoops
    /\ rd = "idle"
    /\ setraw
    /\ rd' = "key"
    /\ buf' = <<>>
    /\ key' = ""
    /\ UNCHANGED <<config, hist, pc, selected, depth, checked, result, question_ids, session,
                   scoring, report, screen, exc, aborted>>

\* One read inside get_arrow_key delivers the byte b.
GetArrowKeyRead(b) ==
    /\ rd = "key"
    /\ LET nb == Append(buf, b)
           r  == classify(nb)
       IN  /\ buf' = nb
           /\ IF r = "more"
              THEN UNCHANGED <<rd, key, term, old_settings>>
              ELSE rd' = "ret" /\ key' = r /\ restore
    /\ UNCHANGED <<config, hist, pc, selected, depth, checked, result, question_ids, session,
                   scoring, report, screen, exc, aborted>>

\* A blocking screen calls wait_for_enter: up to the first blocking read.
WaitForEnterCall ==
    /\ pc \in EnterWaits
    /\ rd = "idle"
    /\ setraw
    /\ rd' = "w"
    /\ UNCHANGED <<config, hist, pc, selected, depth, checked, result, question_ids, session,
                   scoring, report, screen, exc, aborted, key, buf>>

\* Mutant of WaitForEnterRead: the escape byte ends the wait as well.
WaitForEnterRead_esc(b) ==
    /\ rd = "w"
    /\ buf' = <<b>>
    /\ IF b \in {"CR", "ESC"}
       THEN rd' = "ret" /\ restore
       ELSE UNCHANGED <<rd, term, old_settings>>
    /\ UNCHANGED <<config, hist, pc, selected, depth, checked, result,
                   question_ids, session, scoring, report, screen, exc, aborted,
                   key>>

\* One read inside wait_for_enter's loop delivers the byte b.
WaitForEnterRead(b) ==
    /\ rd = "w"
    /\ buf' = <<b>>
    /\ IF b = "CR"
       THEN rd' = "ret" /\ restore
       ELSE UNCHANGED <<rd, term, old_settings>>
    /\ UNCHANGED <<config, hist, pc, selected, depth, checked, result,
                   question_ids, session, scoring, report, screen, exc, aborted,
                   key>>

\* Mutant of ReadRaise: the restore sits after the read instead of in a
\* finally clause, so a raising read skips it.
ReadRaise_no_finally ==
    /\ rd \in {"key", "w"}
    /\ rd' = "idle"
    /\ key' = ""
    /\ buf' = <<>>
    /\ pc' = "exited"
    /\ exc' = "ReadError"
    /\ UNCHANGED <<config, hist, selected, depth, checked, result, question_ids,
                   session, scoring, report, screen, aborted, term, old_settings>>

\* A read raises (an I/O error, an interrupt): the finally clause runs, the
\* exception leaves every frame and the handlers under __main__ end the process.
ReadRaise ==
    /\ rd \in {"key", "w"}
    /\ restore
    /\ rd' = "idle"
    /\ key' = ""
    /\ buf' = <<>>
    /\ pc' = "exited"
    /\ exc' = "ReadError"
    /\ UNCHANGED <<config, hist, selected, depth, checked, result, question_ids, session,
                   scoring, report, screen, aborted>>

\* The caller takes the reader's result and is back in its own code.
consume == rd' = "idle" /\ key' = "" /\ buf' = <<>> /\ UNCHANGED <<term, old_settings>>

(***************************************************************************)
(* Navigation Controller: select_mode and select_module.                   *)
(***************************************************************************)
NumModes == 3    \* len(options) in select_mode

NoResult == [none |-> TRUE, q_ids |-> <<>>]

\* select_mode() is entered: by main, or by select_mode itself after the
\* module menu was escaped.
enter_select_mode ==
    /\ pc' = "mode"
    /\ selected' = 0
    /\ screen' = "mode_menu"

\* main's loop calls select_mode.
MainLoop ==
    /\ pc = "main"
    /\ enter_select_mode
    /\ depth' = 0
    /\ UNCHANGED <<config, hist, checked, result, question_ids, session, scoring,
                   report, exc, aborted, reader>>

\* select_mode returns r; every select_mode frame under it returns the same
\* value on, down to main.
return_to_main(r) ==
    /\ result' = r
    /\ pc' = "main_result"
    /\ selected' = 0
    /\ depth' = 0

\* select_mode's loop body after get_arrow_key, and the code after the loop.
SelectModeKey ==
    /\ pc = "mode"
    /\ rd = "ret"
    /\ consume
    /\ CASE key = "up" ->
              /\ selected' = (selected - 1) % NumModes
              /\ UNCHANGED <<pc, depth, result, screen>>
         [] key = "down" ->
              /\ selected' = (selected + 1) % NumModes
              /\ UNCHANGED <<pc, depth, result, screen>>
         [] key = "enter" /\ selected = 0 ->
              /\ return_to_main([none |-> FALSE, q_ids |-> sorted(DOMAIN questions)])
              /\ UNCHANGED screen
         [] key = "enter" /\ selected = 1 ->
              \* select_module is called
              /\ pc' = "module"
              /\ selected' = 0
              /\ screen' = "module_menu"
              /\ UNCHANGED <<depth, result>>
         [] key = "enter" /\ selected = 2 ->
              /\ return_to_main(NoResult)
              /\ UNCHANGED screen
         [] key = "esc" ->
              /\ return_to_main(NoResult)
              /\ UNCHANGED screen
         [] OTHER ->
              UNCHANGED <<pc, selected, depth, result, screen>>
    /\ UNCHANGED <<config, hist, checked, question_ids, session, scoring, report, exc,
                   aborted>>

module_list == sorted(DOMAIN modules)

\* An exception no frame handles: the handler under __main__ ends the process.
raise(e) ==
    /\ pc' = "exited"
    /\ exc' = e

\* Mutant of module_escaped: select_mode returns None itself.
module_escaped_exits ==
    /\ return_to_main(NoResult)
    /\ UNCHANGED <<screen, exc>>

\* select_module returned None: `return self.select_mode()`.
module_escaped ==
    /\ enter_select_mode
    /\ depth' = depth + 1
    /\ UNCHANGED <<result, exc>>

\* select_module returned a module ID: select_mode returns its question IDs.
module_chosen ==
    /\ return_to_main([none |-> FALSE,
                       q_ids |-> modules[module_list[selected + 1]]])
    /\ UNCHANGED <<screen, exc>>

\* select_module's loop body after get_arrow_key, and what select_mode does
\* with the value select_module returns.
SelectModuleKey ==
    /\ pc = "module"
    /\ rd = "ret"
    /\ ~(key = "esc" /\ depth >= MaxDepth)
    /\ consume
    /\ CASE key \in {"up", "down"} /\ Len(module_list) = 0 ->
              /\ raise("ZeroDivisionError")
              /\ UNCHANGED <<selected, depth, result, screen>>
         [] key = "up" /\ Len(module_list) > 0 ->
              /\ selected' = (selected - 1) % Len(module_list)
              /\ UNCHANGED <<pc, depth, result, screen, exc>>
         [] key = "down" /\ Len(module_list) > 0 ->
              /\ selected' = (selected + 1) % Len(module_list)
              /\ UNCHANGED <<pc, depth, result, screen, exc>>
         [] key = "enter" /\ Len(module_list) = 0 ->
              /\ raise("IndexError")
              /\ UNCHANGED <<selected, depth, result, screen>>
         [] key = "enter" /\ Len(module_list) > 0 ->
              module_chosen
         [] key = "esc" ->
              module_escaped
         [] OTHER ->
              UNCHANGED <<pc, selected, depth, result, screen, exc>>
    /\ UNCHANGED <<config, hist, checked, question_ids, session, scoring, report,
                   aborted>>

(***************************************************************************)
(* main's loop body after select_mode has returned.                        *)
(***************************************************************************)
SampleCap == 20

MainResult ==
    /\ pc = "main_result"
    /\ result' = NoResult
    /\ IF result.none THEN
           /\ pc' = "exited"
           /\ UNCHANGED <<screen, quiz_questions, question_ids>>
       ELSE IF result.q_ids = <<>> THEN
           /\ screen' = "no_questions"
           /\ pc' = "main"
           /\ UNCHANGED <<quiz_questions, question_ids>>
       ELSE
           /\ quiz_questions' \in
                  sample(result.q_ids, Min(SampleCap, Len(result.q_ids)))
           /\ question_ids' = result.q_ids
           /\ pc' = "run_init"
           /\ UNCHANGED screen
    /\ UNCHANGED <<config, hist, selected, depth, checked, current_index, stats, scoring,
                   report, exc, aborted, reader>>

(***************************************************************************)
(* Session Runner: run_quiz, show_question, check_answers, show_result,    *)
(* show_exit_confirmation, show_summary.                                   *)
(***************************************************************************)
NoReport == [pct_correct |-> 0, pct_wrong |-> 0, tier |-> "none"]

NoHist == [answered |-> 0, exact |-> 0, skipped |-> 0]

\* Mutant of check_answers: the two lists compared as lists.
check_answers_as_lists(ua, ci) == ua = ci

\* set(user_answers) == set(correct_indices)
check_answers(ua, ci) == ToSet(ua) = ToSet(ci)

\* Mutant of RunQuizInit: correct and wrong keep what the last run left.
RunQuizInit_keeps_tally ==
    /\ pc = "run_init"
    /\ quiz_questions' \in sample(question_ids, Len(question_ids))
    /\ current_index' = 0
    /\ stats' = [stats EXCEPT !.total = Len(quiz_questions')]
    /\ aborted' = FALSE
    /\ hist' = NoHist
    /\ pc' = "loop"
    /\ UNCHANGED <<config, selected, depth, checked, result, question_ids, scoring,
                   report, screen, exc, reader>>

\* Mutant of RunQuizInit: the run's order is sampled with main's cap.
RunQuizInit_capped ==
    /\ pc = "run_init"
    /\ quiz_questions' \in
           sample(question_ids, Min(SampleCap, Len(question_ids)))
    /\ current_index' = 0
    /\ stats' = [correct |-> 0, wrong |-> 0, total |-> Len(quiz_questions')]
    /\ aborted' = FALSE
    /\ hist' = NoHist
    /\ pc' = "loop"
    /\ UNCHANGED <<config, selected, depth, checked, result, question_ids, scoring,
                   report, screen, exc, reader>>

\* run_quiz up to the head of its while loop.
RunQuizInit ==
    /\ pc = "run_init"
    /\ quiz_questions' \in
           sample(question_ids, Len(question_ids))
    /\ current_index' = 0
    /\ stats' = [correct |-> 0, wrong |-> 0, total |-> Len(quiz_questions')]
    /\ aborted' = FALSE
    /\ hist' = NoHist
    /\ pc' = "loop"
    /\ UNCHANGED <<config, selected, depth, checked, result, question_ids, scoring,
                   report, screen, exc, reader>>

\* Mutant of skip_stale: `continue` without advancing the cursor.
skip_stale_stuck ==
    /\ hist' = [hist EXCEPT !.skipped = @ + 1]
    /\ UNCHANGED <<pc, selected, checked, current_index, stats, screen>>

\* Mutant of skip_stale: the cursor moves past the next ID as well.
skip_stale_double ==
    /\ current_index' = current_index + 2
    /\ hist' = [hist EXCEPT !.skipped = @ + 1]
    /\ UNCHANGED <<pc, selected, checked, stats, screen>>

\* Mutant of skip_stale: a stale ID is counted as a wrong answer.
skip_stale_counted ==
    /\ current_index' = current_index + 1
    /\ hist' = [hist EXCEPT !.skipped = @ + 1]
    /\ stats' = [stats EXCEPT !.wrong = @ + 1]
    /\ UNCHANGED <<pc, selected, checked, screen>>

\* The question ID at the cursor is not in the store: `continue`.
skip_stale ==
    /\ current_index' = current_index + 1
    /\ hist' = [hist EXCEPT !.skipped = @ + 1]
    /\ UNCHANGED <<pc, selected, checked, stats, screen>>

\* show_question is entered for the question at the cursor.
present ==
    /\ pc' = "question"
    /\ selected' = 0
    /\ checked' = {}
    /\ screen' = "question"
    /\ UNCHANGED <<current_index, stats, hist>>

\* One evaluation of run_quiz's while condition and what follows it up to the
\* next blocking read, `continue`, or the call of show_summary.
RunQuizLoop ==
    /\ pc = "loop"
    /\ IF current_index < Len(quiz_questions) THEN
           IF quiz_questions[current_index + 1] \notin DOMAIN questions
           THEN skip_stale
           ELSE present
       ELSE
           /\ pc' = "summary"
           /\ UNCHANGED <<selected, checked, current_index, stats, screen, hist>>
    /\ UNCHANGED <<config, depth, result, question_ids, quiz_questions, scoring,
                   report, exc, aborted, reader>>

question == questions[quiz_questions[current_index + 1]]

\* Mutant of submit: Enter returns list(checked) without testing checked.
submit_unguarded ==
    /\ user_answers' \in ListsOf(checked)
    /\ correct_indices' = questions[quiz_questions[current_index + 1]].correct_indices
    /\ is_correct' = (ToSet(user_answers') = ToSet(correct_indices'))
    /\ hist' = [hist EXCEPT !.answered = @ + 1]
    /\ pc' = "result"
    /\ screen' = "result"
    /\ selected' = 0
    /\ checked' = {}

\* Enter in show_question: returns list(checked) when checked is not empty;
\* run_quiz then scores the answer and show_result renders the feedback.
submit ==
    IF checked # {} THEN
        /\ user_answers' \in ListsOf(checked)
        /\ correct_indices' = question.correct_indices
        /\ is_correct' = check_answers(user_answers', correct_indices')
        /\ hist' = [hist EXCEPT
                       !.answered = @ + 1,
                       !.exact = IF checked = ToSet(question.correct_indices)
                                 THEN @ + 1 ELSE @]
        /\ pc' = "result"
        /\ screen' = "result"
        /\ selected' = 0
        /\ checked' = {}
    ELSE
        UNCHANGED <<pc, selected, checked, scoring, screen, hist>>

\* show_question's loop body after get_arrow_key.
ShowQuestionKey ==
    /\ pc = "question"
    /\ rd = "ret"
    /\ consume
    /\ CASE key = "up" ->
              /\ selected' = (selected - 1) % question.nopts
              /\ UNCHANGED <<pc, checked, scoring, screen, aborted, hist>>
         [] key = "down" ->
              /\ selected' = (selected + 1) % question.nopts
              /\ UNCHANGED <<pc, checked, scoring, screen, aborted, hist>>
         [] key = "space" ->
              /\ checked' = IF selected \in checked
                            THEN checked \ {selected}
                            ELSE checked \cup {selected}
              /\ UNCHANGED <<pc, selected, scoring, screen, aborted, hist>>
         [] key = "enter" ->
              /\ submit
              /\ UNCHANGED aborted
         [] key = "esc" ->
              \* returns None; run_quiz calls show_exit_confirmation
              /\ pc' = "abort"
              /\ screen' = "exit"
              /\ aborted' = TRUE
              /\ selected' = 0
              /\ checked' = {}
              /\ UNCHANGED <<scoring, hist>>
         [] OTHER ->
              UNCHANGED <<pc, selected, checked, scoring, screen, aborted, hist>>
    /\ UNCHANGED <<config, depth, result, question_ids, session, report, exc>>

\* Mutant of Advance: the two branches of the tally exchanged.
Advance_inverted ==
    /\ pc = "result"
    /\ rd = "ret"
    /\ consume
    /\ stats' = IF is_correct
                THEN [stats EXCEPT !.wrong = @ + 1]
                ELSE [stats EXCEPT !.correct = @ + 1]
    /\ current_index' = current_index + 1
    /\ user_answers' = <<>>
    /\ correct_indices' = <<>>
    /\ is_correct' = FALSE
    /\ pc' = "loop"
    /\ UNCHANGED <<config, hist, selected, depth, checked, result, question_ids,
                   quiz_questions, report, screen, exc, aborted>>

\* show_result has returned: the tally and the cursor advance.
Advance ==
    /\ pc = "result"
    /\ rd = "ret"
    /\ consume
    /\ stats' = IF is_correct
                THEN [stats EXCEPT !.correct = @ + 1]
                ELSE [stats EXCEPT !.wrong = @ + 1]
    /\ current_index' = current_index + 1
    /\ user_answers' = <<>>
    /\ correct_indices' = <<>>
    /\ is_correct' = FALSE
    /\ pc' = "loop"
    /\ UNCHANGED <<config, hist, selected, depth, checked, result, question_ids,
                   quiz_questions, report, screen, exc, aborted>>

\* Mutant of AbortReturn: the escaped question is counted as a wrong answer.
AbortReturn_counts ==
    /\ pc = "abort"
    /\ rd = "ret"
    /\ consume
    /\ pc' = "summary"
    /\ stats' = [stats EXCEPT !.wrong = @ + 1]
    /\ UNCHANGED <<config, hist, selected, depth, checked, result, question_ids,
                   quiz_questions, current_index, scoring, report, screen, exc,
                   aborted>>

\* show_exit_confirmation has returned: `break`, then the statement after
\* the while loop.
AbortReturn ==
    /\ pc = "abort"
    /\ rd = "ret"
    /\ consume
    /\ pc' = "summary"
    /\ UNCHANGED <<config, hist, selected, depth, checked, result, question_ids, session,
                   scoring, report, screen, exc, aborted>>

\* int(n / total * 100) if total > 0 else 0.  For the tallies of this model
\* the float expression equals the exact floor.
percent(n, total) == IF total > 0 THEN (n * 100) \div total ELSE 0

\* Mutant of tier: the thresholds compared with > instead of >=.
tier_strict(correct, total) ==
    IF 10 * correct > 8 * total THEN "top"
    ELSE IF 10 * correct > 6 * total THEN "middle"
    ELSE "bottom"

\* The if/elif/else on correct / total (total # 0).  For the tallies of this
\* model the float quotient compares with 0.8 and 0.6 as the exact one does.
tier(correct, total) ==
    IF 10 * correct >= 8 * total THEN "top"
    ELSE IF 10 * correct >= 6 * total THEN "middle"
    ELSE "bottom"

\* show_summary up to wait_for_enter.
ShowSummary ==
    /\ pc = "summary"
    /\ screen' = "summary"
    /\ IF stats.total = 0 THEN
           /\ report' = [pct_correct |-> percent(stats.correct, stats.total),
                         pct_wrong   |-> percent(stats.wrong, stats.total),
                         tier        |-> "none"]
           /\ raise("ZeroDivisionError")
       ELSE
           /\ report' = [pct_correct |-> percent(stats.correct, stats.total),
                         pct_wrong   |-> percent(stats.wrong, stats.total),
                         tier        |-> tier(stats.correct, stats.total)]
           /\ pc' = "summary_wait"
           /\ UNCHANGED exc
    /\ UNCHANGED <<config, hist, selected, depth, checked, result, question_ids, session,
                   scoring, aborted, reader>>

\* show_summary has returned, and with it run_quiz.
SummaryReturn ==
    /\ pc = "summary_wait"
    /\ rd = "ret"
    /\ consume
    /\ pc' = IF entry = "main" THEN "main" ELSE "returned"
    /\ report' = NoReport
    /\ aborted' = FALSE
    /\ UNCHANGED <<config, hist, selected, depth, checked, result, question_ids, session,
                   scoring, screen, exc>>

(***************************************************************************)
(* Question Store: QuestionParser.parse_questions, on a file of one line.  *)
(***************************************************************************)
\* The characters of a line: a digit, the space, the delimiter, the three
\* characters of the marker taken together, and a letter.
Chars == {"1", " ", "*", "[X]", "a"}

\* line.strip()
RECURSIVE strip(_)
strip(s) ==
    IF s = <<>> THEN s
    ELSE IF s[1] = " " THEN strip(Tail(s))
    ELSE IF s[Len(s)] = " " THEN strip(SubSeq(s, 1, Len(s) - 1))
    ELSE s

\* The position of the first c in s, 0 when there is none.
find(s, c) ==
    IF \E i \in DOMAIN s : s[i] = c
    THEN CHOOSE i \in DOMAIN s : s[i] = c /\ \A j \in 1..(i - 1) : s[j] # c
    ELSE 0

\* s.split(c), and s.split(c, 1) for maxsplit = 1 (maxsplit < 0: no limit).
RECURSIVE split(_, _, _)
split(s, c, maxsplit) ==
    LET p == find(s, c)
    IN  IF p = 0 \/ maxsplit = 0 THEN <<s>>
        ELSE <<SubSeq(s, 1, p - 1)>>
                 \o split(SubSeq(s, p + 1, Len(s)), c, maxsplit - 1)

\* int(t) raises ValueError unless t is a numeral; its value otherwise.
is_numeral(t) == t # <<>> /\ \A i \in DOMAIN t : t[i] = "1"

RECURSIVE int(_)
int(t) == IF t = <<>> THEN 0 ELSE 10 * int(SubSeq(t, 1, Len(t) - 1)) + 1

startswith(seg, c) == seg # <<>> /\ seg[1] = c

\* The mapping parse_questions returns for a file whose only line is l.  Of a
\* Question the model keeps the number of options and correct_indices.
parse_questions(l) ==
    LET stripped == strip(l)
        parts    == split(stripped, " ", 1)
    IN  IF stripped = <<>> THEN <<>>
        ELSE IF Len(parts) < 2 THEN <<>>
        ELSE IF ~is_numeral(parts[1]) THEN <<>>
        ELSE LET segments == split(parts[2], "*", -1)
             IN  IF Len(segments) < 2 THEN <<>>
                 ELSE LET options == Tail(segments)
                          idx     == [i \in 1..Len(options) |-> i - 1]
                      IN  int(parts[1]) :>
                              [nopts |-> Len(options),
                               correct_indices |->
                                   SelectSeq(idx, LAMBDA i :
                                       startswith(options[i + 1], "[X]"))]

ParseQuestions ==
    /\ pc = "parse"
    /\ questions' = parse_questions(line)
    /\ pc' = "parsed"
    /\ UNCHANGED <<platform, modules, entry, line, hist, selected, depth, checked,
                   result, question_ids, session, scoring, report, screen, exc,
                   aborted, reader>>

(***************************************************************************)
(* The inputs.                                                             *)
(***************************************************************************)
\* A question bank as parse_questions returns it: Q1 has two options and the
\* first is correct, Q2 has three and the last two are correct, Q3 has one
\* option and no '[X]' marker.
QuestionStore ==
    (1 :> [nopts |-> 2, correct_indices |-> <<0>>]) @@
    (2 :> [nopts |-> 3, correct_indices |-> <<1, 2>>]) @@
    (3 :> [nopts |-> 1, correct_indices |-> <<>>])

\* Module documents as load_modules returns them: none at all; or module 5
\* (with the stale ID 9) and module 7 (without questions).
ModuleMaps == { <<>>, (5 :> <<2, 9, 3>>) @@ (7 :> <<>>) }

Platforms == {"win32", "posix"}

\* What every specification starts from: the locals of frames not entered, an idle reader and a terminal in its normal mode.
Construct ==
    /\ selected = 0
    /\ depth = 0
    /\ checked = {}
    /\ is_correct = FALSE
    /\ report = NoReport
    /\ exc = "none"
    /\ aborted = FALSE
    /\ rd = "idle"
    /\ key = ""
    /\ buf = <<>>
    /\ term = "cooked"
    /\ old_settings = "cooked"

(***************************************************************************)
(* Spec: the program, from main's loop.                                    *)
(***************************************************************************)
\* Quiz.__init__, called by main.
Init ==
    /\ Construct
    /\ line = <<>>
    /\ questions = QuestionStore
    /\ result = NoResult
    /\ screen = "none"
    /\ hist = NoHist
    /\ platform \in Platforms
    /\ modules \in ModuleMaps
    /\ entry = "main"
    /\ pc = "main"
    /\ question_ids = <<>>
    /\ quiz_questions = <<>>
    /\ current_index = 0
    /\ stats = [correct |-> 0, wrong |-> 0, total |-> 0]
    /\ user_answers = <<>>
    /\ correct_indices = <<>>

Next ==
    \/ MainLoop
    \/ GetArrowKeyCall
    \/ \E b \in Bytes : GetArrowKeyRead(b)
    \/ WaitForEnterCall
    \/ \E b \in Bytes : WaitForEnterRead(b)
    \/ ReadRaise
    \/ SelectModeKey
    \/ SelectModuleKey
    \/ MainResult
    \/ RunQuizInit
    \/ RunQuizLoop
    \/ ShowQuestionKey
    \/ Advance
    \/ AbortReturn
    \/ ShowSummary
    \/ SummaryReturn

Spec == Init /\ [][Next]_vars

(***************************************************************************)
(* SpecRun: run_quiz called on a fresh Quiz object with any ID sequence,   *)
(* the empty one included (main never passes an empty one).                *)
(***************************************************************************)
\* Q1, Q3 and the stale ID 9.
RunIds == {1, 3, 9}

InitRun ==
    /\ Construct
    /\ line = <<>>
    /\ questions = QuestionStore
    /\ result = NoResult
    /\ screen = "none"
    /\ platform \in Platforms
    /\ modules = <<>>
    /\ entry = "run_quiz"
    /\ pc = "run_init"
    /\ hist = NoHist
    /\ question_ids \in SeqsUpTo(RunIds, MaxIds)
    /\ quiz_questions = <<>>
    /\ current_index = 0
    /\ stats = [correct |-> 0, wrong |-> 0, total |-> 0]
    /\ user_answers = <<>>
    /\ correct_indices = <<>>

NextRun ==
    \/ GetArrowKeyCall
    \/ \E b \in Bytes : GetArrowKeyRead(b)
    \/ WaitForEnterCall
    \/ \E b \in Bytes : WaitForEnterRead(b)
    \/ ReadRaise
    \/ RunQuizInit
    \/ RunQuizLoop
    \/ ShowQuestionKey
    \/ Advance
    \/ AbortReturn
    \/ ShowSummary
    \/ SummaryReturn

SpecRun == InitRun /\ [][NextRun]_vars

(***************************************************************************)
(* SpecSummary: show_summary on every tally a run can end with.            *)
(***************************************************************************)
\* A run that ends with the tally (c, w, t): c times Q1 answered right, w
\* times Q2 answered wrong, and t - c - w stale IDs, in this order.
run_with_tally(c, w, t) ==
    [i \in 1..t |-> IF i <= c THEN 1 ELSE IF i <= c + w THEN 2 ELSE 9]

InitSummary ==
    /\ Construct
    /\ line = <<>>
    /\ questions = QuestionStore
    /\ result = NoResult
    /\ screen = "none"
    /\ platform \in Platforms
    /\ modules = <<>>
    /\ entry = "run_quiz"
    /\ pc = "summary"
    /\ \E t \in 0..MaxTotal : \E c \in 0..t : \E w \in 0..(t - c) :
          /\ stats = [correct |-> c, wrong |-> w, total |-> t]
          /\ quiz_questions = run_with_tally(c, w, t)
          /\ question_ids = quiz_questions
          /\ current_index = t
          /\ hist = [answered |-> c + w, exact |-> c, skipped |-> t - c - w]
    /\ user_answers = <<>>
    /\ correct_indices = <<>>

NextSummary ==
    \/ ShowSummary
    \/ WaitForEnterCall
    \/ \E b \in Bytes : WaitForEnterRead(b)
    \/ ReadRaise
    \/ SummaryReturn

SpecSummary == InitSummary /\ [][NextSummary]_vars

(***************************************************************************)
(* SpecCheck: check_answers on every pair of index sequences.              *)
(***************************************************************************)
IndexSeqs == SeqsUpTo(0..(MaxOpt - 1), MaxLen)

InitCheck ==
    /\ Construct
    /\ line = <<>>
    /\ questions = QuestionStore
    /\ result = NoResult
    /\ screen = "none"
    /\ platform = "posix"    \* check_answers does not depend on it
    /\ modules = <<>>
    /\ entry = "check_answers"
    /\ pc = "check"
    /\ hist = NoHist
    /\ question_ids = <<>>
    /\ quiz_questions = <<>>
    /\ current_index = 0
    /\ stats = [correct |-> 0, wrong |-> 0, total |-> 0]
    /\ user_answers \in IndexSeqs
    /\ correct_indices \in IndexSeqs

CheckAnswers ==
    /\ pc = "check"
    /\ is_correct' = check_answers(user_answers, correct_indices)
    /\ pc' = "checked"
    /\ UNCHANGED <<config, hist, selected, depth, checked, result, question_ids,
                   session, user_answers, correct_indices, report, screen, exc,
                   aborted, reader>>

NextCheck == CheckAnswers

SpecCheck == InitCheck /\ [][NextCheck]_vars

(***************************************************************************)
(* SpecCap: main starts a run on a module whose list is about as long as,  *)
(* or longer than, the cap of main's own sample.                           *)
(***************************************************************************)
\* Module lists of SampleCap - 1 to SampleCap + MaxOver entries: Q3 throughout,
\* with the stale ID 9 at one place or nowhere.
LongLists ==
    {[i \in 1..n |-> IF i = p THEN 9 ELSE 3] :
        n \in (SampleCap - 1)..(SampleCap + MaxOver), p \in 0..(SampleCap + MaxOver)}

\* The state in which select_mode has returned the list l of module 5 to
\* main: Enter was pressed on the module menu's first row.
chosen(l) ==
    /\ Construct
    /\ line = <<>>
    /\ questions = QuestionStore
    /\ hist = NoHist
    /\ modules = (5 :> l)
    /\ result = [none |-> FALSE, q_ids |-> l]
    /\ screen = "module_menu"
    /\ entry = "main"
    /\ pc = "main_result"
    /\ question_ids = <<>>
    /\ quiz_questions = <<>>
    /\ current_index = 0
    /\ stats = [correct |-> 0, wrong |-> 0, total |-> 0]
    /\ user_answers = <<>>
    /\ correct_indices = <<>>

InitCap ==
    /\ platform = "posix"    \* no key is read before the run's first question
    /\ \E l \in LongLists : chosen(l)

NextCap ==
    \/ MainResult
    \/ RunQuizInit

SpecCap == InitCap /\ [][NextCap]_vars

(***************************************************************************)
(* SpecStart: main starts a run on a short module list and the run is      *)
(* followed to its return to main's loop.                                  *)
(***************************************************************************)
\* Q1, Q2 and the stale ID 9.
StartIds == {1, 2, 9}

InitStart ==
    /\ platform \in Platforms
    /\ \E l \in SeqsUpTo(StartIds, MaxIds) : chosen(l)

NextStart ==
    \/ MainResult
    \/ GetArrowKeyCall
    \/ \E b \in Bytes : GetArrowKeyRead(b)
    \/ WaitForEnterCall
    \/ \E b \in Bytes : WaitForEnterRead(b)
    \/ ReadRaise
    \/ RunQuizInit
    \/ RunQuizLoop
    \/ ShowQuestionKey
    \/ Advance
    \/ AbortReturn
    \/ ShowSummary
    \/ SummaryReturn

SpecStart == InitStart /\ [][NextStart]_vars

(***************************************************************************)
(* SpecParse: parse_questions on every line of up to MaxLine characters.   *)
(***************************************************************************)
InitParse ==
    /\ Construct
    /\ line \in SeqsUpTo(Chars, MaxLine)
    /\ questions = <<>>
    /\ result = NoResult
    /\ screen = "none"
    /\ platform = "posix"    \* parse_questions does not depend on it
    /\ modules = <<>>
    /\ entry = "parse_questions"
    /\ pc = "parse"
    /\ hist = NoHist
    /\ question_ids = <<>>
    /\ quiz_questions = <<>>
    /\ current_index = 0
    /\ stats = [correct |-> 0, wrong |-> 0, total |-> 0]
    /\ user_answers = <<>>
    /\ correct_indices = <<>>

NextParse == ParseQuestions

SpecParse == InitParse /\ [][NextParse]_vars

(***************************************************************************)
(* SpecLive: SpecStart with the scheduling that lets a run proceed.  The   *)
(* program takes its own steps; every blocking read delivers a byte, so no *)
(* read raises; the user presses Enter in every Enter-only wait and leaves *)
(* every question that is presented, by submitting or by escape.           *)
(***************************************************************************)
ProgramStep ==
    \/ MainResult
    \/ GetArrowKeyCall
    \/ WaitForEnterCall
    \/ RunQuizInit
    \/ RunQuizLoop
    \/ ShowQuestionKey
    \/ Advance
    \/ AbortReturn
    \/ ShowSummary
    \/ SummaryReturn

NextLive ==
    \/ ProgramStep
    \/ \E b \in Bytes : GetArrowKeyRead(b)
    \/ \E b \in Bytes : WaitForEnterRead(b)

SpecLive ==
    /\ InitStart
    /\ [][NextLive]_vars
    /\ WF_vars(ProgramStep)
    /\ WF_vars(\E b \in Bytes : GetArrowKeyRead(b))
    /\ WF_vars(WaitForEnterRead("CR"))
    /\ []<>(pc # "question")

(***************************************************************************)
(* Properties.                                                             *)
(***************************************************************************)

\* C1: check_answers returns true exactly when every submitted index is a
\* correct index and every correct index is submitted; hence any other
\* sequence with the same elements (another order, repetitions) gets the
\* same result, and a strict subset, a strict superset or a sequence holding
\* an incorrect index is scored wrong.
C1_CheckAnswersSetEquality ==
    pc = "checked" =>
        /\ is_correct <=>
              /\ \A i \in DOMAIN user_answers :
                    \E j \in DOMAIN correct_indices :
                        correct_indices[j] = user_answers[i]
              /\ \A j \in DOMAIN correct_indices :
                    \E i \in DOMAIN user_answers :
                        user_answers[i] = correct_indices[j]
        /\ \A other \in IndexSeqs :
              ToSet(other) = ToSet(user_answers) =>
                  check_answers(other, correct_indices) = is_correct
        /\ (\E i \in DOMAIN user_answers :
                user_answers[i] \notin ToSet(correct_indices)) => ~is_correct
        /\ (ToSet(user_answers) # ToSet(correct_indices)
              /\ ToSet(user_answers) \subseteq ToSet(correct_indices)) => ~is_correct

\* C1 witness: {0,2,0} submitted against {0,2} has been scored correct.
C1_Witness ==
    /\ pc = "checked"
    /\ user_answers = <<0, 2, 0>>
    /\ correct_indices = <<0, 2>>
    /\ is_correct

\* C2: once escape was pressed in the question loop of a run, the Summary
\* screen is not rendered in that run.
C2_NoSummaryAfterAbort == aborted => screen # "summary"

\* C3: with a tally total of 0, show_summary raises nothing, reports 0% and
\* 0% and reaches (or has passed) the Enter-only wait.
C3_SummaryOfEmptyRun ==
    (stats.total = 0 /\ screen = "summary") =>
        /\ exc # "ZeroDivisionError"
        /\ report.pct_correct = 0
        /\ report.pct_wrong = 0
        /\ pc \in {"summary_wait", "returned", "exited"}

\* C4: whenever control is outside get_arrow_key and wait_for_enter (before a
\* call, after a return on any branch, after a read raised), the terminal is
\* in the mode it had before the call: never raw.
C4_TerminalRestored ==
    rd \in {"idle", "ret"} => (term = "cooked" /\ term = old_settings)

\* C4 witness: on the non-Windows path a read raised inside a reader and the
\* process ended with the terminal in its prior mode.
C4_Witness ==
    /\ platform = "posix"
    /\ pc = "exited"
    /\ exc = "ReadError"
    /\ term = "cooked"

\* C5: get_arrow_key returns up / down for the escape sequences ESC [ A and
\* ESC [ B and for the single letters k and j, on every platform branch.
C5_BothArrowEncodings ==
    (rd = "ret" /\ pc \in KeyLoops) =>
        /\ buf = <<"ESC", "[", "A">> => key = "up"
        /\ buf = <<"ESC", "[", "B">> => key = "down"
        /\ buf = <<"k">> => key = "up"
        /\ buf = <<"j">> => key = "down"

\* C6: Enter with an empty checked set leaves show_question's loop running
\* with highlight and checked set unchanged, and every answer show_question
\* returns is a non-empty set of valid option indices of the question.
C6_EnterNeedsSelection ==
    /\ [][(pc = "question" /\ rd = "ret" /\ key = "enter" /\ checked = {}) =>
            (pc' = "question" /\ selected' = selected /\ checked' = checked)]_vars
    /\ [](pc = "result" =>
            /\ user_answers # <<>>
            /\ ToSet(user_answers) \subseteq 0..(question.nopts - 1))

\* C6 witness: Enter has been read in show_question, after the highlight was
\* moved, while nothing is checked.
C6_Witness ==
    /\ pc = "question"
    /\ rd = "ret"
    /\ key = "enter"
    /\ checked = {}
    /\ selected > 0

\* C7: with total > 0 the tier show_summary prints is top exactly when
\* correct/total >= 80%, middle exactly when 60% <= correct/total < 80%, and
\* bottom otherwise.
C7_TierByRatio ==
    (pc = "summary_wait" /\ stats.total > 0) =>
        /\ report.tier = "top" <=> 100 * stats.correct >= 80 * stats.total
        /\ report.tier = "middle" <=>
              /\ 100 * stats.correct >= 60 * stats.total
              /\ 100 * stats.correct < 80 * stats.total
        /\ report.tier = "bottom" <=> 100 * stats.correct < 60 * stats.total

\* C7 witness: a tally of exactly 80% has been reported as top tier.
C7_Witness ==
    /\ pc = "summary_wait"
    /\ stats.total > 0
    /\ 100 * stats.correct = 80 * stats.total
    /\ report.tier = "top"

\* C8: a step of run_quiz's loop on an ID that is not in the store advances
\* the cursor by one, leaves the tally as it is, renders nothing, reads no
\* input and is back at the head of the loop.
C8_StaleSkipped ==
    [][(/\ pc = "loop"
        /\ current_index < Len(quiz_questions)
        /\ quiz_questions[current_index + 1] \notin DOMAIN questions) =>
            /\ current_index' = current_index + 1
            /\ stats' = stats
            /\ screen' = screen
            /\ rd' = "idle"
            /\ pc' = "loop"]_vars

\* C8 witness: the loop stands right behind a stale ID.
C8_Witness ==
    /\ pc = "loop"
    /\ current_index > 0
    /\ quiz_questions[current_index] \notin DOMAIN questions
    /\ stats.correct + stats.wrong < current_index

\* C9: escape in the module menu leads to the top-level menu with its cursor
\* at 0 and does not end the program; select_mode returns the absent result
\* to main only from the top-level menu, on escape or on Enter on the exit
\* entry.
C9_ModuleEscapeReturnsToMenu ==
    /\ [][(pc = "module" /\ rd = "ret" /\ key = "esc") =>
            (pc' = "mode" /\ selected' = 0 /\ exc' = "none")]_vars
    /\ [][(pc # "main_result" /\ pc' = "main_result" /\ result'.none) =>
            /\ pc = "mode"
            /\ rd = "ret"
            /\ key = "esc" \/ (key = "enter" /\ selected = 2)]_vars

\* C9 witness: the top-level menu, re-entered after the module menu was
\* escaped, waits for a key with its cursor at 0.
C9_Witness ==
    /\ pc = "mode"
    /\ depth > 0
    /\ selected = 0
    /\ rd = "idle"
    /\ exc = "none"

\* The number of rows of the menu whose key loop is running.
rows ==
    CASE pc = "mode"     -> NumModes
      [] pc = "module"   -> Len(module_list)
      [] pc = "question" -> question.nopts
      [] OTHER           -> 0

\* C10: in every menu the cursor is a row index, up moves it to the row above
\* or from row 0 to the last row, down to the row below or from the last row
\* to row 0.
C10_CursorWraps ==
    /\ [](pc \in KeyLoops => selected \in 0..(rows - 1))
    /\ [][(pc \in KeyLoops /\ rd = "ret" /\ key = "up") =>
            /\ pc' = pc
            /\ selected' = IF selected = 0 THEN rows - 1 ELSE selected - 1]_vars
    /\ [][(pc \in KeyLoops /\ rd = "ret" /\ key = "down") =>
            /\ pc' = pc
            /\ selected' = IF selected = rows - 1 THEN 0 ELSE selected + 1]_vars

\* How often v occurs in the sequence s.
count(s, v) == Cardinality({i \in DOMAIN s : s[i] = v})

IsPermutation(a, b) ==
    /\ Len(a) = Len(b)
    /\ \A v \in ToSet(a) \cup ToSet(b) : count(a, v) = count(b, v)

\* C11: when run_quiz has initialised a run that main started, the run's
\* question order is a permutation of the whole candidate list (here the list
\* of module 5), also when the list is longer than the cap of main's sample.
C11_RunOrderIsFullPermutation ==
    pc = "loop" =>
        /\ IsPermutation(quiz_questions, modules[5])
        /\ stats.total = Len(modules[5])

\* C11 witness: a run over more IDs than main's cap has been initialised.
C11_Witness ==
    /\ pc = "loop"
    /\ Len(modules[5]) > SampleCap
    /\ Len(quiz_questions) > SampleCap
    /\ 9 \in ToSet(quiz_questions)

\* C12: a run over n IDs that are all in the store, in which every question
\* was submitted with exactly its correct-index set and escape was not
\* pressed, stands at the Summary with the tally (n, 0, n) and the top tier.
C12_PerfectRunTopTier ==
    (/\ pc = "summary_wait"
     /\ ~aborted
     /\ ToSet(quiz_questions) \subseteq DOMAIN questions
     /\ hist.exact = Len(quiz_questions)) =>
        /\ stats = [correct |-> Len(question_ids), wrong |-> 0,
                    total |-> Len(question_ids)]
        /\ screen = "summary"
        /\ report.tier = "top"
        /\ report.pct_correct = 100

\* C12 witness: the Summary of a run over Q1 and Q2, both answered exactly.
C12_Witness ==
    /\ pc = "summary_wait"
    /\ ~aborted
    /\ ToSet(quiz_questions) = {1, 2}
    /\ hist.exact = 2
    /\ stats = [correct |-> 2, wrong |-> 0, total |-> 2]
    /\ report.tier = "top"

\* C13: every Question parse_questions produces has a correct-index set that
\* is not empty and lies within 0..len(options)-1.
C13_CorrectSetNonEmpty ==
    pc = "parsed" =>
        \A q \in DOMAIN questions :
            /\ questions[q].correct_indices # <<>>
            /\ ToSet(questions[q].correct_indices)
                   \subseteq 0..(questions[q].nopts - 1)

\* C14 as stated: the step that initialises a run sets correct, wrong and
\* total to zero and the cursor to 0.
C14_TallyAllZero ==
    [][pc = "run_init" =>
          /\ stats' = [correct |-> 0, wrong |-> 0, total |-> 0]
          /\ current_index' = 0]_vars

\* C14, amended: the step that initialises a run sets correct and wrong to
\* zero, total to the length of the run's question sequence (which is the
\* length of the candidate sequence) and the cursor to 0, whatever the tally
\* and the cursor were before.
C14_TallyReset ==
    [][pc = "run_init" =>
          /\ stats'.correct = 0
          /\ stats'.wrong = 0
          /\ stats'.total = Len(quiz_questions')
          /\ Len(quiz_questions') = Len(question_ids)
          /\ current_index' = 0]_vars

\* C14 witness: a run is about to be initialised on top of the tally and the
\* cursor that an earlier run left.
C14_Witness ==
    /\ pc = "run_init"
    /\ stats.correct > 0
    /\ stats.wrong > 0
    /\ current_index > 0

\* The positions of run_quiz from the head of its loop to show_summary's wait.
RunPcs == {"loop", "question", "result", "abort", "summary", "summary_wait"}

\* C15: the cursor of a run starts at 0, then stays or grows by one with every
\* step, is never beyond the length of the run's question sequence, and the
\* loop condition ends the loop exactly when the cursor equals that length.
C15_CursorBounded ==
    /\ [][pc = "run_init" => current_index' = 0]_vars
    /\ [][(pc \in RunPcs) =>
            current_index' \in {current_index, current_index + 1}]_vars
    /\ [](pc \in RunPcs =>
            (0 <= current_index /\ current_index <= Len(quiz_questions)))
    /\ [][pc = "loop" =>
            (pc' = "summary" <=> current_index = Len(quiz_questions))]_vars

\* C15 witness: the loop of a run over two IDs has ended at the cursor's limit
\* without escape.
C15_Witness ==
    /\ pc = "summary"
    /\ ~aborted
    /\ Len(quiz_questions) = 2
    /\ current_index = 2

\* C16: a call of get_arrow_key returns a symbol of the fixed set and has
\* consumed one key event: when it returns escape for an escape byte that no
\* '[' follows, the escape byte is all it has read.
C16_OneKeyPerCall ==
    (rd = "ret" /\ pc \in KeyLoops) =>
        /\ key \in Symbols
        /\ (buf[1] = "ESC" /\ key = "esc" /\ ~(Len(buf) >= 2 /\ buf[2] = "["))
              => buf = <<"ESC">>

\* C17: nothing is raised while the module menu is the screen shown: not by
\* up or down, not by enter, for every module mapping.
C17_SelectModuleNeverRaises ==
    screen = "module_menu" => exc \notin {"ZeroDivisionError", "IndexError"}

\* C18: wait_for_enter returns only on the enter byte; every other byte read
\* in it leaves the wait running and the position of the program, the session,
\* the scoring, the screen and the menu state as they are; a blocking screen
\* is left only after wait_for_enter has returned.
C18_EnterOnlyWait ==
    /\ [][(rd = "w" /\ rd' = "ret") => buf' = <<"CR">>]_vars
    /\ [][(rd = "w" /\ buf' # <<"CR">> /\ exc' = exc) =>
            /\ rd' = "w"
            /\ UNCHANGED <<pc, session, scoring, screen, selected, checked,
                           aborted, hist, report, result>>]_vars
    /\ [][(pc \in EnterWaits /\ pc' # pc /\ exc' = exc) =>
            (rd = "ret" /\ buf = <<"CR">>)]_vars

\* C18 witness: escape has been read on the feedback screen and the wait is
\* still running.
C18_Witness ==
    /\ pc = "result"
    /\ rd = "w"
    /\ buf = <<"ESC">>
    /\ screen = "result"

\* C19 as stated: in every state of a run correct + wrong is the number of
\* answers submitted so far, correct + wrong + skipped = cursor <= total.
C19_TallyCountsSubmitted ==
    pc \in RunPcs =>
        /\ stats.correct + stats.wrong = hist.answered
        /\ stats.correct + stats.wrong + hist.skipped = current_index
        /\ current_index <= stats.total

\* C19, amended: correct + wrong is the number of submitted answers whose
\* feedback screen has been left with enter: on the feedback screen it is one
\* less than the number of answers submitted, everywhere else it is that
\* number.  The step that leaves the feedback screen adds one to exactly one
\* of correct and wrong; no other step of the run (a skipped stale ID, escape)
\* changes either.  correct + wrong + skipped = cursor <= total, and at the end
\* of a run without escape correct + wrong = total exactly when no ID of the
\* sequence is stale.
C19_TallyCountsAcknowledged ==
    /\ [](pc \in RunPcs =>
            /\ stats.correct + stats.wrong =
                   hist.answered - (IF pc = "result" THEN 1 ELSE 0)
            /\ stats.correct + stats.wrong + hist.skipped = current_index
            /\ current_index <= stats.total
            /\ stats.total = Len(quiz_questions))
    /\ [][(pc = "result" /\ pc' = "loop") =>
            \/ stats' = [stats EXCEPT !.correct = @ + 1]
            \/ stats' = [stats EXCEPT !.wrong = @ + 1]]_vars
    /\ [][(pc \in RunPcs /\ ~(pc = "result" /\ pc' = "loop")) =>
            stats' = stats]_vars
    /\ []((pc = "summary" /\ ~aborted) =>
            (stats.correct + stats.wrong = stats.total
                <=> ToSet(quiz_questions) \subseteq DOMAIN questions))

\* C19 witness: the feedback screen of the first submitted answer of a run
\* that has skipped a stale ID.
C19_Witness ==
    /\ pc = "result"
    /\ hist.answered = 1
    /\ hist.skipped = 1
    /\ stats.correct + stats.wrong = 0
    /\ current_index = 1

\* C20: every run that main starts returns to main's loop; every pass of the
\* question loop that comes back to the loop's head has advanced the cursor by
\* one, so the questions answered and the IDs skipped are together at most as
\* many as the run's question sequence is long.
C20_RunTerminates ==
    /\ [][(pc \in RunPcs /\ pc' = "loop") =>
            current_index' = current_index + 1]_vars
    /\ [](pc \in RunPcs =>
            hist.answered + hist.skipped <= Len(quiz_questions))
    /\ (pc = "run_init" ~> pc = "main")

\* C20 witness: a run over at least one ID went through its whole sequence
\* and control is back in main's loop.
C20_Witness ==
    /\ pc = "main"
    /\ screen = "summary"
    /\ Len(quiz_questions) > 0
    /\ current_index = Len(quiz_questions)

====
